---- MODULE Spec2Model ----
(***************************************************************************)
(* A model of convore/api.py: the transport helpers get and post, the      *)
(* module-level credential state set by login, the entity decoders         *)
(* (import_from_api) and the resource collections Groups, Topics, Users.   *)
(*                                                                         *)
(* Python and JSON values are tagged records, so that values of different  *)
(* types can be compared: None, numbers, strings, mappings (dict), arrays  *)
(* (list), and the entity objects User, Group, Topic, Message.             *)
(***************************************************************************)
EXTENDS Integers, Sequences, FiniteSets, TLC

VARIABLES
    globals,    \* the module's global names and their values
    last,       \* the last call: its arguments, the server's answer, the requests
                \* it sent, and its outcome
    lastLogin   \* history: the arguments of the most recent login call, or None

vars == <<globals, last, lastLogin>>

(* Longest JSON array the server sends in the modelled responses. *)
MaxLen == 2

-----------------------------------------------------------------------------
(* Values *)

None == [t |-> "null"]
Num(n) == [t |-> "num", v |-> n]
Str(s) == [t |-> "str", v |-> s]
Obj(f) == [t |-> "obj", v |-> f]
Arr(s) == [t |-> "arr", v |-> s]
Tuple(s) == [t |-> "tuple", v |-> s]
PyList(s) == [t |-> "list", v |-> s]

(* dict.get(k, None) *)
Get(d, k) == IF k \in DOMAIN d.v THEN d.v[k] ELSE None

(* A mapping without key k, and a mapping with key k set to x. *)
Without(d, k) == Obj([j \in (DOMAIN d.v) \ {k} |-> d.v[j]])
With(d, k, x) == Obj([j \in (DOMAIN d.v) \cup {k} |-> IF j = k THEN x ELSE d.v[j]])

(* Python truth value of the optional error argument: None and '' are false. *)
Truthy(x) == x # None /\ x # Str("")

(* str(x) for the path segments: strings as they are, numbers in decimal. *)
PyStr(x) == CASE x.t = "str" -> x.v
              [] x.t = "num" -> ToString(x.v)
              [] OTHER -> "None"

(* An exception that propagates to the caller, and a normal return. *)
Raise(kind, args) == [kind |-> "raise", exc |-> kind, args |-> args]
Return(x) == [kind |-> "return", value |-> x]
IsRaise(o) == o.kind = "raise"

-----------------------------------------------------------------------------
(* Transport helpers *)

API_URL == "https://convore.com/api/"

RECURSIVE Join(_)
Join(path) ==
    IF Len(path) = 0 THEN ""
    ELSE IF Len(path) = 1 THEN PyStr(path[1])
    ELSE PyStr(path[1]) \o "/" \o Join(Tail(path))

(* '%s%s%s' % (API_URL, '/'.join(map(str, path)), '.json') *)
Url(path) == API_URL \o Join(path) \o ".json"

(* Response.raise_for_status(): whether it raises requests.HTTPError.  It    *)
(* never does for 2xx and always does for 4xx and 5xx; for the other        *)
(* statuses (1xx, a 3xx the client does not follow) the releases of the     *)
(* HTTP library differ, so both outcomes are possible.                      *)
RaisesForStatus(status) ==
    IF status >= 200 /\ status < 300 THEN {FALSE}
    ELSE IF status >= 400 /\ status < 600 THEN {TRUE}
    ELSE {TRUE, FALSE}

(* _safe_response and two variants of it: one that tests the error        *)
(* message before the status, one that drops the message.                 *)
_safe_responseM401(r, error, httpError) ==
    IF ~httpError THEN Return(r)
    ELSE IF Truthy(error) THEN Raise("APIError", <<error>>)
    ELSE IF r.status_code = 401 THEN Raise("LoginFailed", <<>>)
    ELSE Raise("APIError", <<>>)

_safe_responseMNoMsg(r, error, httpError) ==
    IF ~httpError THEN Return(r)
    ELSE IF r.status_code = 401 THEN Raise("LoginFailed", <<>>)
    ELSE Raise("APIError", <<>>)

_safe_response(r, error, httpError) ==
    IF ~httpError THEN Return(r)
    ELSE IF r.status_code = 401 THEN Raise("LoginFailed", <<>>)
    ELSE IF Truthy(error) THEN Raise("APIError", <<error>>)
    ELSE Raise("APIError", <<>>)

(* The global name the transport helpers read the credentials from: auth, *)
(* which login binds, and not AUTH, which the module binds to None.        *)
AuthNameM == "AUTH"

AuthName == "auth"

(* requests.get(url, params=params, auth=auth) *)
GetRequest(url, params, a) ==
    [method |-> "GET", url |-> url, params |-> params, data |-> None, auth |-> a]

(* requests.post(url, params=params, auth=auth) *)
PostRequest(url, params, a) ==
    [method |-> "POST", url |-> url, params |-> params, data |-> None, auth |-> a]

(* get: the requests sent and the outcome, when the server *)
(* answers r and raise_for_status behaves as httpError says.                *)
get(g, path, params, error, r, httpError) ==
    IF AuthName \notin DOMAIN g
    THEN [sent |-> <<>>, outcome |-> Raise("NameError", <<Str(AuthName)>>)]
    ELSE [sent |-> <<GetRequest(Url(path), params, g[AuthName])>>,
          outcome |-> _safe_response(r, error, httpError)]

(* post: as get, with no error argument *)
post(g, params, path, r, httpError) ==
    IF AuthName \notin DOMAIN g
    THEN [sent |-> <<>>, outcome |-> Raise("NameError", <<Str(AuthName)>>)]
    ELSE [sent |-> <<PostRequest(Url(path), params, g[AuthName])>>,
          outcome |-> _safe_response(r, None, httpError)]

(* login(username, password): global auth; auth = (username, password) *)
login(g, username, password) ==
    [n \in (DOMAIN g) \cup {"auth"} |->
        IF n = "auth" THEN Tuple(<<username, password>>) ELSE g[n]]

-----------------------------------------------------------------------------
(* Entities *)

(* The result of a method that assigns to self: the object afterwards (a   *)
(* method that raises half way leaves the fields it had assigned) and the  *)
(* outcome.                                                                 *)
Done(self) == [self |-> self, outcome |-> Return(None)]
Fail(self, kind) == [self |-> self, outcome |-> Raise(kind, <<>>)]

(* x.get(...) on something that is not a dict raises AttributeError. *)
HasGet(x) == x.t = "obj"

(* datetime.utcfromtimestamp(x): the UTC calendar day counted from the     *)
(* epoch day, and the time of day.                                         *)
utcfromtimestamp(x) ==
    [t |-> "datetime",
     day |-> x.v \div 86400,
     hour |-> (x.v % 86400) \div 3600,
     minute |-> (x.v % 3600) \div 60,
     second |-> x.v % 60]

(* datetime.utcfromtimestamp(d.get(key, None)): a missing key gives None, *)
(* and utcfromtimestamp accepts a number only (TypeError).                 *)
(* The variant leaves the field None when the key is missing.              *)
TimestampOrNoneM(d, key) ==
    IF key \notin DOMAIN d.v THEN Return(None)
    ELSE IF Get(d, key).t = "num" THEN Return(utcfromtimestamp(Get(d, key)))
    ELSE Raise("TypeError", <<>>)

Timestamp(d, key) ==
    IF Get(d, key).t = "num" THEN Return(utcfromtimestamp(Get(d, key)))
    ELSE Raise("TypeError", <<>>)

(* User.__init__ *)
NewUser == [t |-> "User", username |-> None, url |-> None, id |-> None, img |-> None]

(* User.import_from_api *)
UserImport(self, d) ==
    IF ~HasGet(d) THEN Fail(self, "AttributeError")
    ELSE Done([self EXCEPT !.username = Get(d, "username"),
                           !.url = Get(d, "url"),
                           !.id = Get(d, "id"),
                           !.img = Get(d, "img")])

(* An assignment self.field = <call>: when the call raised, the method     *)
(* ends with self as it is.                                                *)
Raised(self, o) == [self |-> self, outcome |-> o]

(* Group.__init__ *)
NewGroup ==
    [t |-> "Group", kind |-> None, members_count |-> None, name |-> None,
     creator |-> None, url |-> None, slug |-> None,
     date_latest_message |-> None, date_created |-> None,
     topics_count |-> None, friends |-> None, unread |-> None, id |-> None,
     joined |-> FALSE]

(* iter(x) of a for loop: the elements of a list, the keys of a dict, the  *)
(* characters of a string; anything else is not iterable (TypeError).      *)
IsIterable(x) == x.t \in {"arr", "obj", "str"}

RECURSIVE SetToSeq(_)
SetToSeq(S) ==
    IF S = {} THEN <<>>
    ELSE LET k == CHOOSE k \in S : TRUE IN <<Str(k)>> \o SetToSeq(S \ {k})

Iter(x) ==
    CASE x.t = "arr" -> x.v
      [] x.t = "obj" -> SetToSeq(DOMAIN x.v)
      [] OTHER -> IF x.v = "" THEN <<>> ELSE <<Str(x.v)>>

(* The loop of Group.import_from_api over friend_list, appending to acc:   *)
(* the list as far as it got, and whether a friend failed to decode.       *)
RECURSIVE AppendFriends(_, _)
AppendFriend(acc, u, rest) ==
    IF IsRaise(u.outcome) THEN [list |-> acc, outcome |-> u.outcome]
    ELSE AppendFriends(Append(acc, u.self), rest)

AppendFriends(acc, items) ==
    IF Len(items) = 0 THEN [list |-> acc, outcome |-> Return(None)]
    ELSE AppendFriend(acc, UserImport(NewUser, items[1]), Tail(items))

(* The list self.friends is set to before the friends are appended: a new *)
(* empty list (the variant keeps the friends of an earlier decode).        *)
FriendsStartM(self) == IF self.friends.t = "list" THEN self.friends.v ELSE <<>>

FriendsStart(self) == <<>>

(* What Group.import_from_api does to self.joined: nothing (the variant   *)
(* reads it from the mapping).                                             *)
JoinedAfterImportM(self, d) == Truthy(Get(d, "joined"))

JoinedAfterImport(self, d) == self.joined

(* Group.import_from_api, from its last statements to its first.           *)
(* The friend_list loop, f being what the loop did.                        *)
GroupFriendsDone(self, f) ==
    [self |-> [self EXCEPT !.friends = PyList(f.list)], outcome |-> f.outcome]

(* self.friends = [], then the friend_list loop when the key is present. *)
GroupFriends(self, d) ==
    IF "friend_list" \notin DOMAIN d.v THEN Done(self)
    ELSE IF ~IsIterable(d.v["friend_list"]) THEN Fail(self, "TypeError")
    ELSE GroupFriendsDone(self, AppendFriends(self.friends.v, Iter(d.v["friend_list"])))

(* self.creator.import_from_api(d.get('creator', None)), c being its result *)
GroupCreator(self, d, c) ==
    IF IsRaise(c.outcome) THEN Raised(self, c.outcome)
    ELSE GroupFriends([self EXCEPT !.creator = c.self,
                                   !.friends = PyList(FriendsStart(self))], d)

(* self.date_created = ..., ts being the converted timestamp, then the     *)
(* assignments up to self.creator = User()                                 *)
GroupDateCreated(self, d, ts) ==
    IF IsRaise(ts) THEN Raised(self, ts)
    ELSE GroupCreator([self EXCEPT !.date_created = ts.value,
                                   !.topics_count = Get(d, "topics_count"),
                                   !.unread = Get(d, "unread"),
                                   !.id = Get(d, "id"),
                                   !.creator = NewUser],
                      d, UserImport(NewUser, Get(d, "creator")))

(* self.date_latest_message = ..., ts being the converted timestamp *)
GroupDateLatest(self, d, ts) ==
    IF IsRaise(ts) THEN Raised(self, ts)
    ELSE GroupDateCreated([self EXCEPT !.date_latest_message = ts.value], d,
                          Timestamp(d, "date_created"))

(* Group.import_from_api *)
GroupImport(self, d) ==
    IF ~HasGet(d) THEN Fail(self, "AttributeError")
    ELSE GroupDateLatest([self EXCEPT !.kind = Get(d, "kind"),
                                      !.members_count = Get(d, "members_count"),
                                      !.name = Get(d, "name"),
                                      !.url = Get(d, "url"),
                                      !.slug = Get(d, "slug"),
                                      !.joined = JoinedAfterImport(self, d)],
                         d, Timestamp(d, "date_latest_message"))

(* Topic.__init__ *)
NewTopic ==
    [t |-> "Topic", id |-> None, name |-> None, slug |-> None, url |-> None,
     message_count |-> None, unread |-> None, date_created |-> None,
     date_latest_message |-> None, creator |-> None]

(* Topic.import_from_api, from its last statements to its first.           *)
(* self.creator.import_from_api(data.get('creator', None))                 *)
TopicCreator(self, c) ==
    IF IsRaise(c.outcome) THEN Raised(self, c.outcome)
    ELSE Done([self EXCEPT !.creator = c.self])

(* self.date_latest_message = ..., then self.creator = User() *)
TopicDateLatest(self, d, ts) ==
    IF IsRaise(ts) THEN Raised(self, ts)
    ELSE TopicCreator([self EXCEPT !.date_latest_message = ts.value,
                                   !.creator = NewUser],
                      UserImport(NewUser, Get(d, "creator")))

(* self.date_created = ... *)
TopicDateCreated(self, d, ts) ==
    IF IsRaise(ts) THEN Raised(self, ts)
    ELSE TopicDateLatest([self EXCEPT !.date_created = ts.value], d,
                         Timestamp(d, "date_latest_message"))

(* Topic.import_from_api *)
TopicImport(self, d) ==
    IF ~HasGet(d) THEN Fail(self, "AttributeError")
    ELSE TopicDateCreated([self EXCEPT !.id = Get(d, "id"),
                                       !.name = Get(d, "name"),
                                       !.slug = Get(d, "slug"),
                                       !.url = Get(d, "url"),
                                       !.message_count = Get(d, "message_count"),
                                       !.unread = Get(d, "unread")],
                          d, Timestamp(d, "date_created"))

(* Message.__init__ *)
NewMessage ==
    [t |-> "Message", id |-> None, message |-> None, date_created |-> None,
     user |-> None]

(* Message.import_from_api, from its last statements to its first.         *)
(* self.user.import_from_api(data.get('user', None))                       *)
MessageUser(self, c) ==
    IF IsRaise(c.outcome) THEN Raised(self, c.outcome)
    ELSE Done([self EXCEPT !.user = c.self])

(* self.date_created = ..., then self.user = User() *)
MessageDateCreated(self, d, ts) ==
    IF IsRaise(ts) THEN Raised(self, ts)
    ELSE MessageUser([self EXCEPT !.date_created = ts.value, !.user = NewUser],
                     UserImport(NewUser, Get(d, "user")))

(* Message.import_from_api *)
MessageImport(self, d) ==
    IF ~HasGet(d) THEN Fail(self, "AttributeError")
    ELSE MessageDateCreated([self EXCEPT !.id = Get(d, "id"),
                                         !.message = Get(d, "message")],
                            d, Timestamp(d, "date_created"))

-----------------------------------------------------------------------------
(* Resource collections *)

(* A response body: JSON text standing for the value it decodes to, or    *)
(* text that is not JSON.                                                  *)
Json(x) == [t |-> "json", v |-> x]
Garbage == [t |-> "garbage"]
Response(status, content) ==
    [t |-> "Response", status_code |-> status, content |-> content]

(* deserialize(response.content) *)
deserialize(content) ==
    IF content.t = "json" THEN Return(content.v) ELSE Raise("ValueError", <<>>)

(* x[key] with a string key: KeyError on a dict without the key,           *)
(* TypeError on anything that is not a dict (the variant reads a missing   *)
(* key as an empty array).                                                 *)
SubscriptDefaultM(x, key) ==
    IF x.t # "obj" THEN Raise("TypeError", <<>>)
    ELSE IF key \notin DOMAIN x.v THEN Return(Arr(<<>>))
    ELSE Return(x.v[key])

Subscript(x, key) ==
    IF x.t # "obj" THEN Raise("TypeError", <<>>)
    ELSE IF key \notin DOMAIN x.v THEN Raise("KeyError", <<Str(key)>>)
    ELSE Return(x.v[key])

(* group.joined = True after group.import_from_api(_group), x being what   *)
(* the decoding did.                                                       *)
Joined(x) ==
    IF IsRaise(x.outcome) THEN x ELSE Done([x.self EXCEPT !.joined = TRUE])

(* The body of each for loop of the list operations: one element decoded   *)
(* into a new entity.                                                       *)
DecodeOne(kind, item) ==
    CASE kind = "groups" -> Joined(GroupImport(NewGroup, item))
      [] kind = "members" ->
           IF ~HasGet(item) THEN Fail(NewUser, "AttributeError")
           ELSE UserImport(NewUser, Get(item, "user"))
      [] kind = "online" -> UserImport(NewUser, item)
      [] kind = "topics" -> TopicImport(NewTopic, item)
      [] kind = "messages" -> MessageImport(NewMessage, item)

(* The for loops of the list operations: the entities appended to acc in   *)
(* the order of the items; the first element that fails ends the call     *)
(* (the variant skips it).                                                 *)
RECURSIVE DecodeAllSkipM(_, _, _)
DecodeAllSkipM(kind, acc, items) ==
    IF Len(items) = 0 THEN Return(PyList(acc))
    ELSE LET x == DecodeOne(kind, items[1])
         IN IF IsRaise(x.outcome) THEN DecodeAllSkipM(kind, acc, Tail(items))
            ELSE DecodeAllSkipM(kind, Append(acc, x.self), Tail(items))

RECURSIVE DecodeAll(_, _, _)
AppendDecoded(kind, acc, x, rest) ==
    IF IsRaise(x.outcome) THEN x.outcome
    ELSE DecodeAll(kind, Append(acc, x.self), rest)

DecodeAll(kind, acc, items) ==
    IF Len(items) = 0 THEN Return(PyList(acc))
    ELSE AppendDecoded(kind, acc, DecodeOne(kind, items[1]), Tail(items))

(* return group / return topic / return user, x being what the decoding   *)
(* did.                                                                    *)
ReturnEntity(x) == IF IsRaise(x.outcome) THEN x.outcome ELSE Return(x.self)

(* The single-entity operations: the envelope value decoded into a new     *)
(* entity, which is returned.                                              *)
DecodeSingle(kind, item) ==
    CASE kind = "group" -> ReturnEntity(GroupImport(NewGroup, item))
      [] kind = "topic" -> ReturnEntity(TopicImport(NewTopic, item))
      [] kind = "user" -> ReturnEntity(UserImport(NewUser, item))

ListKinds == {"groups", "members", "online", "topics", "messages"}

(* What follows the transport call in every resource operation, from the   *)
(* last step to the first: the value under the envelope key is decoded     *)
(* into entities, env being the result of the subscript;                   *)
DecodeValue(kind, env) ==
    IF IsRaise(env) THEN env
    ELSE IF kind \in ListKinds
         THEN IF ~IsIterable(env.value) THEN Raise("TypeError", <<>>)
              ELSE DecodeAll(kind, <<>>, Iter(env.value))
         ELSE DecodeSingle(kind, env.value)

(* the envelope key is read from the decoded body;                         *)
DecodeBody(kind, body) ==
    IF IsRaise(body) THEN body ELSE DecodeValue(kind, Subscript(body.value, kind))

(* the body is decoded.                                                    *)
DecodeEnvelope(kind, content) == DecodeBody(kind, deserialize(content))

(* What a resource operation does with c, the result of its call of get:   *)
(* a failure of get is the operation's failure.                            *)
AfterGet(c, kind, r) ==
    IF IsRaise(c.outcome) THEN c
    ELSE [sent |-> c.sent, outcome |-> DecodeEnvelope(kind, r.content)]

(* A resource operation: response = get(path...), then the decoding. *)
Resource(g, path, kind, r, httpError) ==
    AfterGet(get(g, path, None, None, r, httpError), kind, r)

get_user_groups(g, r, h) == Resource(g, <<Str("groups")>>, "groups", r, h)
get_group(g, group_id, r, h) == Resource(g, <<Str("groups"), group_id>>, "group", r, h)
get_group_members(g, group_id, r, h) ==
    Resource(g, <<Str("groups"), group_id, Str("members")>>, "members", r, h)
get_group_online_members(g, group_id, r, h) ==
    Resource(g, <<Str("groups"), group_id, Str("online")>>, "online", r, h)
get_group_topics(g, group_id, r, h) ==
    Resource(g, <<Str("groups"), group_id, Str("topics")>>, "topics", r, h)
get_topic(g, topic_id, r, h) == Resource(g, <<Str("topics"), topic_id>>, "topic", r, h)
get_messages(g, topic_id, r, h) ==
    Resource(g, <<Str("topics"), topic_id, Str("messages")>>, "messages", r, h)
get_user(g, user_id, r, h) == Resource(g, <<Str("users"), user_id>>, "user", r, h)

(* Group.members, Group.online_members, Group.topics, Topic.messages *)
members(g, self, r, h) == get_group_members(g, self.id, r, h)
online_members(g, self, r, h) == get_group_online_members(g, self.id, r, h)
topics(g, self, r, h) == get_group_topics(g, self.id, r, h)
messages(g, self, r, h) == get_messages(g, self.id, r, h)

-----------------------------------------------------------------------------
(* The inputs: what callers pass and what the server answers *)

(* All sequences over S of length at most n. *)
RECURSIVE SeqsUpTo(_, _)
SeqsUpTo(S, n) ==
    IF n = 0 THEN {<<>>}
    ELSE LET shorter == SeqsUpTo(S, n - 1)
         IN shorter \cup {Append(q, x) : q \in shorter, x \in S}

Usernames == {"alice", "bob"}
Passwords == {"secret"}

Ids == {Num(1), Num(2)}

UserA == Obj([username |-> Str("a"), url |-> Str("/users/a"), id |-> Num(1),
              img |-> Str("a.png")])
UserB == Obj([username |-> Str("b"), id |-> Num(2)])

(* A group mapping with every key but friend_list. *)
GroupA ==
    Obj([kind |-> Str("public"), members_count |-> Num(2), name |-> Str("G"),
         url |-> Str("/g"), slug |-> Str("g"), date_latest_message |-> Num(90061),
         date_created |-> Num(0), topics_count |-> Num(1), unread |-> Num(0),
         id |-> Num(1), creator |-> UserA])

(* The values of friend_list: arrays of user mappings of every length up   *)
(* to MaxLen, two users in an order of their own, an array with an element *)
(* that is no mapping, and null.                                           *)
FriendLists == {Arr(q) : q \in SeqsUpTo({UserA}, MaxLen)}
                  \cup {Arr(<<UserB, UserA>>), Arr(<<UserA, None>>), None}

(* Mappings a group the caller holds is decoded from. *)
ImportMaps ==
    {GroupA, With(GroupA, "joined", Str("yes")), Without(GroupA, "date_created")}
       \cup {With(GroupA, "friend_list", f) : f \in FriendLists}

(* Mappings get_group finds under its envelope key (and None, which is no  *)
(* mapping).                                                               *)
GroupMaps ==
    ImportMaps \cup
    {None, With(Without(GroupA, "name"), "id", Num(2)),
     Without(GroupA, "date_latest_message"), With(GroupA, "date_created", None),
     Without(GroupA, "creator")}

TopicA ==
    Obj([id |-> Num(1), name |-> Str("T"), slug |-> Str("t"), url |-> Str("/t"),
         message_count |-> Num(3), unread |-> Num(1), date_created |-> Num(86400),
         date_latest_message |-> Num(86461), creator |-> UserB])

TopicMaps ==
    {TopicA, None, With(Without(TopicA, "slug"), "id", Num(2)),
     Without(TopicA, "date_created"), Without(TopicA, "date_latest_message"),
     Without(TopicA, "creator")}

MessageA ==
    Obj([id |-> Num(1), message |-> Str("hi"), date_created |-> Num(0),
         user |-> UserA])

UserMaps == {UserA, UserB, None}

(* The array elements of the list responses that decode, and one that   *)
(* does not.                                                               *)
GoodElems(kind) ==
    CASE kind = "groups" ->
           {With(GroupA, "joined", Str("no")),
            With(With(GroupA, "id", Num(2)), "friend_list", Arr(<<UserB, UserA>>))}
      [] kind = "members" -> {Obj([user |-> UserA]), Obj([user |-> UserB])}
      [] kind = "online" -> {UserA, UserB}
      [] kind = "topics" -> {TopicA, With(TopicA, "id", Num(2))}
      [] kind = "messages" -> {MessageA, With(Without(MessageA, "message"), "id", Num(2))}

BadElem(kind) ==
    CASE kind = "groups" -> Without(GroupA, "date_created")
      [] kind = "members" -> Obj(<<>>)
      [] kind = "online" -> None
      [] kind = "topics" -> Without(TopicA, "date_latest_message")
      [] kind = "messages" -> Without(MessageA, "date_created")

(* The values the server may put under the envelope key. *)
Payloads(kind) ==
    CASE kind \in ListKinds ->
           {Arr(q) : q \in SeqsUpTo(GoodElems(kind), MaxLen)}
              \cup {Arr(<<BadElem(kind)>>),
                    Arr(<<CHOOSE e \in GoodElems(kind) : TRUE, BadElem(kind)>>),
                    None, Obj(<<>>)}
      [] kind = "group" -> GroupMaps
      [] kind = "topic" -> TopicMaps
      [] kind = "user" -> UserMaps

(* The bodies of a successful answer to an operation that reads `kind`.    *)
Contents(kind) ==
    {Garbage, Json(Arr(<<>>)), Json(Obj([error |-> Str("x")]))}
       \cup {Json(Obj([k \in {kind} |-> x])) : x \in Payloads(kind)}

Statuses == {200, 204, 304, 401, 404, 500}
ErrorStatuses == {401, 500}

(* The answers to a resource operation: every body with status 200, and   *)
(* one body with each of some other statuses.                              *)
Responses(kind) ==
    {Response(200, c) : c \in Contents(kind)}
       \cup {Response(st, Json(Obj([error |-> Str("x")]))) : st \in ErrorStatuses}

(* The answers to a convenience method of an entity. *)
ShortResponses(kind) ==
    {Response(200, Json(Obj(<<>>))), Response(401, Garbage)}
       \cup {Response(200, Json(Obj([k \in {kind} |-> Arr(<<e>>)]))) :
                e \in GoodElems(kind)}

(* The answers to a bare get or post. *)
RawResponses == {Response(st, Json(Obj(<<>>))) : st \in Statuses}

(* The path and the parameters of a bare get or post. *)
Targets == {[path |-> <<Str("groups")>>, params |-> None],
            [path |-> <<Str("groups"), Num(1), Str("members")>>,
             params |-> Obj([q |-> Str("x")])]}
Errors == {None, Str(""), Str("no such group")}

-----------------------------------------------------------------------------
(* The state machine *)

NoResponse == None

(* The record of a call.  The server's answer is part of it only when the *)
(* call sent a request.                                                    *)
Call(op, self, args, r, h, sent, outcome) ==
    [op |-> op, self |-> self, args |-> args,
     r |-> IF Len(sent) = 0 THEN NoResponse ELSE r,
     httpError |-> Len(sent) > 0 /\ h,
     sent |-> sent, outcome |-> outcome]

(* The record of a call that c is the result of. *)
Record(op, self, args, r, h, c) == Call(op, self, args, r, h, c.sent, c.outcome)

(* The entities the caller holds after the last call: its receiver, and    *)
(* what it returned.                                                       *)
Held(l) ==
    {l.self}
      \cup (IF IsRaise(l.outcome) THEN {}
            ELSE IF l.outcome.value.t = "list"
                 THEN {l.outcome.value.v[i] : i \in DOMAIN l.outcome.value.v}
                 ELSE {l.outcome.value})

HeldOf(l, type) == {e \in Held(l) : e.t = type}

Init ==
    /\ globals = [n \in {"AUTH"} |-> None]
    /\ last = Call("import", None, <<>>, NoResponse, FALSE, <<>>, Return(None))
    /\ lastLogin = None

Login ==
    \E u \in Usernames, p \in Passwords :
        /\ globals' = login(globals, Str(u), Str(p))
        /\ last' = Call("login", None, <<Str(u), Str(p)>>, NoResponse, FALSE, <<>>,
                        Return(None))
        /\ lastLogin' = Tuple(<<Str(u), Str(p)>>)

TransportGet ==
    \E tg \in Targets, error \in Errors, r \in RawResponses :
      \E h \in RaisesForStatus(r.status_code) :
        /\ last' = Record("get", None, <<PyList(tg.path), tg.params, error>>, r, h,
                          get(globals, tg.path, tg.params, error, r, h))
        /\ UNCHANGED <<globals, lastLogin>>

TransportPost ==
    \E tg \in Targets, r \in RawResponses :
      \E h \in RaisesForStatus(r.status_code) :
        /\ last' = Record("post", None, <<PyList(tg.path), tg.params, None>>, r, h,
                          post(globals, tg.params, tg.path, r, h))
        /\ UNCHANGED <<globals, lastLogin>>

GetUserGroups ==
    \E r \in Responses("groups") :
      \E h \in RaisesForStatus(r.status_code) :
        /\ last' = Record("get_user_groups", None, <<>>, r, h,
                          get_user_groups(globals, r, h))
        /\ UNCHANGED <<globals, lastLogin>>

GetGroup ==
    \E id \in Ids, r \in Responses("group") :
      \E h \in RaisesForStatus(r.status_code) :
        /\ last' = Record("get_group", None, <<id>>, r, h,
                          get_group(globals, id, r, h))
        /\ UNCHANGED <<globals, lastLogin>>

GetGroupMembers ==
    \E id \in Ids, r \in Responses("members") :
      \E h \in RaisesForStatus(r.status_code) :
        /\ last' = Record("get_group_members", None, <<id>>, r, h,
                          get_group_members(globals, id, r, h))
        /\ UNCHANGED <<globals, lastLogin>>

GetGroupOnlineMembers ==
    \E id \in Ids, r \in Responses("online") :
      \E h \in RaisesForStatus(r.status_code) :
        /\ last' = Record("get_group_online_members", None, <<id>>, r, h,
                          get_group_online_members(globals, id, r, h))
        /\ UNCHANGED <<globals, lastLogin>>

GetGroupTopics ==
    \E id \in Ids, r \in Responses("topics") :
      \E h \in RaisesForStatus(r.status_code) :
        /\ last' = Record("get_group_topics", None, <<id>>, r, h,
                          get_group_topics(globals, id, r, h))
        /\ UNCHANGED <<globals, lastLogin>>

GetTopic ==
    \E id \in Ids, r \in Responses("topic") :
      \E h \in RaisesForStatus(r.status_code) :
        /\ last' = Record("get_topic", None, <<id>>, r, h,
                          get_topic(globals, id, r, h))
        /\ UNCHANGED <<globals, lastLogin>>

GetMessages ==
    \E id \in Ids, r \in Responses("messages") :
      \E h \in RaisesForStatus(r.status_code) :
        /\ last' = Record("get_messages", None, <<id>>, r, h,
                          get_messages(globals, id, r, h))
        /\ UNCHANGED <<globals, lastLogin>>

GetUser ==
    \E id \in Ids, r \in Responses("user") :
      \E h \in RaisesForStatus(r.status_code) :
        /\ last' = Record("get_user", None, <<id>>, r, h,
                          get_user(globals, id, r, h))
        /\ UNCHANGED <<globals, lastLogin>>

(* Group() *)
ConstructGroup ==
    /\ last' = Call("Group", None, <<>>, NoResponse, FALSE, <<>>, Return(NewGroup))
    /\ UNCHANGED <<globals, lastLogin>>

(* The record of self.import_from_api(d), x being what it did. *)
Imported(self, d, x) ==
    Call("Group.import_from_api", x.self, <<self, d>>, NoResponse, FALSE, <<>>,
         x.outcome)

(* group.import_from_api(d) on a group the caller holds *)
GroupImportFromApi ==
    \E self \in HeldOf(last, "Group"), d \in ImportMaps :
        /\ last' = Imported(self, d, GroupImport(self, d))
        /\ UNCHANGED <<globals, lastLogin>>

GroupMembers ==
    \E self \in HeldOf(last, "Group"), r \in ShortResponses("members") :
      \E h \in RaisesForStatus(r.status_code) :
        /\ last' = Record("Group.members", self, <<>>, r, h,
                          members(globals, self, r, h))
        /\ UNCHANGED <<globals, lastLogin>>

GroupOnlineMembers ==
    \E self \in HeldOf(last, "Group"), r \in ShortResponses("online") :
      \E h \in RaisesForStatus(r.status_code) :
        /\ last' = Record("Group.online_members", self, <<>>, r, h,
                          online_members(globals, self, r, h))
        /\ UNCHANGED <<globals, lastLogin>>

GroupTopics ==
    \E self \in HeldOf(last, "Group"), r \in ShortResponses("topics") :
      \E h \in RaisesForStatus(r.status_code) :
        /\ last' = Record("Group.topics", self, <<>>, r, h,
                          topics(globals, self, r, h))
        /\ UNCHANGED <<globals, lastLogin>>

TopicMessages ==
    \E self \in HeldOf(last, "Topic"), r \in ShortResponses("messages") :
      \E h \in RaisesForStatus(r.status_code) :
        /\ last' = Record("Topic.messages", self, <<>>, r, h,
                          messages(globals, self, r, h))
        /\ UNCHANGED <<globals, lastLogin>>

Next ==
    \/ Login
    \/ TransportGet
    \/ TransportPost
    \/ GetUserGroups
    \/ GetGroup
    \/ GetGroupMembers
    \/ GetGroupOnlineMembers
    \/ GetGroupTopics
    \/ GetTopic
    \/ GetMessages
    \/ GetUser
    \/ ConstructGroup
    \/ GroupImportFromApi
    \/ GroupMembers
    \/ GroupOnlineMembers
    \/ GroupTopics
    \/ TopicMessages

Spec == Init /\ [][Next]_vars

-----------------------------------------------------------------------------
(* Properties *)

TransportOps == {"get", "post"}
SingleOps == {"get_group", "get_topic", "get_user"}
ListOps == {"get_user_groups", "get_group_members", "get_group_online_members",
            "get_group_topics", "get_messages"}
ConvenienceOps == {"Group.members", "Group.online_members", "Group.topics",
                   "Topic.messages"}
ResourceOps == SingleOps \cup ListOps \cup ConvenienceOps
ListResultOps == ListOps \cup ConvenienceOps

(* The envelope key each resource operation reads. *)
EnvelopeKey(op) ==
    CASE op = "get_user_groups" -> "groups"
      [] op = "get_group" -> "group"
      [] op \in {"get_group_members", "Group.members"} -> "members"
      [] op \in {"get_group_online_members", "Group.online_members"} -> "online"
      [] op \in {"get_group_topics", "Group.topics"} -> "topics"
      [] op = "get_topic" -> "topic"
      [] op \in {"get_messages", "Topic.messages"} -> "messages"
      [] op = "get_user" -> "user"

(* The last call sent a request and the server answered it. *)
Answered == Len(last.sent) >= 1
Is2xx(status) == status >= 200 /\ status < 300

(* The last call was a resource operation whose answer was a 2xx with a    *)
(* JSON object for a body.                                                 *)
GotObject ==
    /\ last.op \in ResourceOps
    /\ Answered
    /\ Is2xx(last.r.status_code)
    /\ last.r.content.t = "json"
    /\ last.r.content.v.t = "obj"

HasEnvelope == GotObject /\ EnvelopeKey(last.op) \in DOMAIN last.r.content.v.v
Payload == last.r.content.v.v[EnvelopeKey(last.op)]
Returned == ~IsRaise(last.outcome)

(* C1: a response with status 401 to any transport call, bare or made by a *)
(* resource operation, makes the call fail with LoginFailed, whatever      *)
(* error message the caller supplied: never APIError, never a return.      *)
C1_Unauthorized ==
    (Answered /\ last.r.status_code = 401)
        => last.outcome = Raise("LoginFailed", <<>>)

C1_Witness ==
    /\ last.op = "get"
    /\ Answered
    /\ last.r.status_code = 401
    /\ last.args[3] = Str("no such group")
    /\ last.outcome = Raise("LoginFailed", <<>>)

(* C2 as stated: every answer to a transport call whose status is neither  *)
(* 2xx nor 401 fails with APIError, with the caller's message when one was *)
(* supplied and bare otherwise.                                            *)
C2_AnyNon2xx ==
    (last.op \in TransportOps /\ Answered
        /\ ~Is2xx(last.r.status_code) /\ last.r.status_code # 401)
        => last.outcome = IF last.args[3] # None
                          THEN Raise("APIError", <<last.args[3]>>)
                          ELSE Raise("APIError", <<>>)

(* C2 amended: every answer to a transport call whose status is 4xx or 5xx *)
(* and not 401 fails with APIError, carrying the caller's message when a   *)
(* non-empty one was supplied and bare otherwise; it is never returned.    *)
C2_ErrorStatus ==
    (last.op \in TransportOps /\ Answered
        /\ last.r.status_code >= 400 /\ last.r.status_code < 600
        /\ last.r.status_code # 401)
        => last.outcome = IF last.args[3] \notin {None, Str("")}
                          THEN Raise("APIError", <<last.args[3]>>)
                          ELSE Raise("APIError", <<>>)

C2_Witness ==
    /\ last.op = "get"
    /\ Answered
    /\ last.r.status_code = 404
    /\ last.outcome = Raise("APIError", <<Str("no such group")>>)

(* C3: the credential pair is unset until the first login and afterwards   *)
(* is the pair of the most recent login (so no other operation changes     *)
(* it); every request sent carries exactly that pair, and none is sent     *)
(* before the first login.                                                 *)
C3_Credentials ==
    /\ ("auth" \in DOMAIN globals) <=> (lastLogin # None)
    /\ "auth" \in DOMAIN globals => globals["auth"] = lastLogin
    /\ \A i \in DOMAIN last.sent :
          lastLogin # None /\ last.sent[i].auth = lastLogin

C3_Witness ==
    /\ last.op \in ResourceOps
    /\ Answered
    /\ last.sent[1].auth = Tuple(<<Str("bob"), Str("secret")>>)

(* C4: post builds the URL get builds for the same path and sends its      *)
(* parameters in the request body, never in the query string; get sends    *)
(* its parameters in the query string.                                     *)
C4_PostBody ==
    (last.op \in TransportOps /\ Answered)
        => /\ last.sent[1].url = Url(last.args[1].v)
           /\ last.op = "get" => /\ last.sent[1].params = last.args[2]
                                 /\ last.sent[1].data = None
           /\ last.op = "post" => /\ last.sent[1].data = last.args[2]
                                  /\ last.sent[1].params = None

(* C5: every group get_user_groups returns has joined true, the group      *)
(* get_group returns has joined false, whatever the payload holds, and     *)
(* import_from_api leaves joined as it was.                                *)
C5_Joined ==
    /\ (last.op = "get_user_groups" /\ Returned)
          => \A i \in DOMAIN last.outcome.value.v :
                 last.outcome.value.v[i].joined = TRUE
    /\ (last.op = "get_group" /\ Returned) => last.outcome.value.joined = FALSE
    /\ last.op = "Group.import_from_api" => last.self.joined = last.args[1].joined

C5_Witness ==
    /\ last.op = "get_user_groups"
    /\ Returned
    /\ Len(last.outcome.value.v) >= 1
    /\ "joined" \in DOMAIN Payload.v[1].v
    /\ last.outcome.value.v[1].joined = TRUE

(* C6: a resource operation answered by a 2xx whose decoded body lacks the *)
(* envelope key fails (KeyError): it returns no entity and no list.        *)
C6_MissingEnvelope ==
    (GotObject /\ ~HasEnvelope) => last.outcome = Raise("KeyError", <<Str(EnvelopeKey(last.op))>>)

C6_Witness ==
    /\ GotObject
    /\ ~HasEnvelope
    /\ last.op = "get_group_topics"
    /\ DOMAIN last.r.content.v.v = {"error"}
    /\ IsRaise(last.outcome)

(* The entity type decoded from the items under each envelope key. *)
EntityType(kind) ==
    CASE kind \in {"groups", "group"} -> "Group"
      [] kind \in {"topics", "topic"} -> "Topic"
      [] kind = "messages" -> "Message"
      [] OTHER -> "User"

TimestampFields(type) ==
    CASE type \in {"Group", "Topic"} -> {"date_created", "date_latest_message"}
      [] type = "Message" -> {"date_created"}
      [] OTHER -> {}

NestedField(type) == IF type = "Message" THEN "user" ELSE "creator"

LacksTimestamp(type, d) ==
    d.t = "obj" /\ \E k \in TimestampFields(type) : k \notin DOMAIN d.v

(* A mapping with everything the decoder of `type` insists on: number      *)
(* timestamps, a nested user mapping, and for a group a friend_list that   *)
(* is absent or an array of mappings.  Scalar keys may be missing.         *)
StrictOk(type, d) ==
    /\ d.t = "obj"
    /\ \A k \in TimestampFields(type) : Get(d, k).t = "num"
    /\ type # "User" => Get(d, NestedField(type)).t = "obj"
    /\ (type = "Group" /\ "friend_list" \in DOMAIN d.v)
          => /\ d.v["friend_list"].t = "arr"
             /\ \A i \in DOMAIN d.v["friend_list"].v :
                    d.v["friend_list"].v[i].t = "obj"

(* The mapping an array element is decoded from: for members, its user. *)
Source(kind, item) == IF kind = "members" THEN Get(item, "user") ELSE item

ElemOk(kind, item) ==
    /\ item.t = "obj"
    /\ StrictOk(EntityType(kind), Source(kind, item))

(* The entities a resource operation returned. *)
ReturnedEntities ==
    IF ~(last.op \in ResourceOps /\ Returned) THEN {}
    ELSE IF last.outcome.value.t = "list"
         THEN {last.outcome.value.v[i] : i \in DOMAIN last.outcome.value.v}
         ELSE {last.outcome.value}

(* C7: decoding a Group, Topic or Message mapping that lacks a timestamp   *)
(* key fails, in import_from_api and in every resource operation, so no    *)
(* entity a resource operation returns has an absent timestamp; a mapping  *)
(* that lacks scalar keys only decodes without failure.                    *)
C7_Timestamps ==
    /\ last.op = "Group.import_from_api"
          => /\ LacksTimestamp("Group", last.args[2]) => IsRaise(last.outcome)
             /\ StrictOk("Group", last.args[2]) => Returned
    /\ (HasEnvelope /\ last.op \in SingleOps)
          => /\ LacksTimestamp(EntityType(EnvelopeKey(last.op)), Payload)
                   => IsRaise(last.outcome)
             /\ StrictOk(EntityType(EnvelopeKey(last.op)), Payload) => Returned
    /\ (HasEnvelope /\ last.op \in ListResultOps /\ Payload.t = "arr")
          => /\ (\E i \in DOMAIN Payload.v :
                    LacksTimestamp(EntityType(EnvelopeKey(last.op)), Payload.v[i]))
                   => IsRaise(last.outcome)
             /\ (\A i \in DOMAIN Payload.v : ElemOk(EnvelopeKey(last.op), Payload.v[i]))
                   => Returned
    /\ \A e \in ReturnedEntities :
          \A k \in TimestampFields(e.t) : e[k].t = "datetime"

C7_Witness ==
    /\ last.op = "get_messages"
    /\ HasEnvelope
    /\ Payload.t = "arr"
    /\ Len(Payload.v) = 2
    /\ ElemOk("messages", Payload.v[1])
    /\ LacksTimestamp("Message", Payload.v[2])
    /\ last.outcome = Raise("TypeError", <<>>)

(* The user entity a user mapping decodes to. *)
UserOf(d) ==
    [t |-> "User", username |-> Get(d, "username"), url |-> Get(d, "url"),
     id |-> Get(d, "id"), img |-> Get(d, "img")]

FriendsMatch(group, d) ==
    /\ group.friends.t = "list"
    /\ "friend_list" \notin DOMAIN d.v => group.friends.v = <<>>
    /\ ("friend_list" \in DOMAIN d.v /\ d.v["friend_list"].t = "arr")
          => /\ Len(group.friends.v) = Len(d.v["friend_list"].v)
             /\ \A i \in DOMAIN d.v["friend_list"].v :
                    group.friends.v[i] = UserOf(d.v["friend_list"].v[i])

(* C8: after a successful Group.import_from_api(d), friends is empty when  *)
(* d has no friend_list, and otherwise holds one User per element of       *)
(* friend_list, in order, also when the group was decoded before.          *)
C8_Friends ==
    /\ (last.op = "Group.import_from_api" /\ Returned)
          => FriendsMatch(last.self, last.args[2])
    /\ (last.op = "get_group" /\ Returned) => FriendsMatch(last.outcome.value, Payload)

C8_Witness ==
    /\ last.op = "Group.import_from_api"
    /\ Returned
    /\ last.args[1].friends.t = "list"
    /\ Len(last.args[1].friends.v) = 2
    /\ "friend_list" \in DOMAIN last.args[2].v
    /\ Len(last.self.friends.v) = 1

(* Entity e carries what the mapping src holds. *)
DecodedFrom(e, src) ==
    /\ e.id = Get(src, "id")
    /\ e.t = "User" => e.username = Get(src, "username")
    /\ e.t \in {"Group", "Topic"} => e.name = Get(src, "name")
    /\ e.t = "Message" => e.message = Get(src, "message")

(* C9: a list operation that succeeds returns one entity per element of    *)
(* the array under its envelope key, the i-th decoded from the i-th        *)
(* element; when an element does not decode, the operation fails and       *)
(* returns nothing.                                                        *)
C9_Lists ==
    (HasEnvelope /\ last.op \in ListResultOps /\ Payload.t = "arr")
        => IF \A i \in DOMAIN Payload.v : ElemOk(EnvelopeKey(last.op), Payload.v[i])
           THEN /\ Returned
                /\ last.outcome.value.t = "list"
                /\ Len(last.outcome.value.v) = Len(Payload.v)
                /\ \A i \in DOMAIN Payload.v :
                      /\ last.outcome.value.v[i].t = EntityType(EnvelopeKey(last.op))
                      /\ DecodedFrom(last.outcome.value.v[i],
                                     Source(EnvelopeKey(last.op), Payload.v[i]))
           ELSE IsRaise(last.outcome)

C9_Witness ==
    /\ last.op = "get_group_members"
    /\ Returned
    /\ Len(last.outcome.value.v) = 2
    /\ last.outcome.value.v[1].id = Num(2)
    /\ last.outcome.value.v[2].id = Num(1)

(* After a login, every resource operation and convenience method sends    *)
(* exactly one request, whatever the answer is.                            *)
OneRequestAfterLogin ==
    (last.op \in ResourceOps /\ lastLogin # None) => Len(last.sent) = 1

(* C10: every invocation of a resource operation or of a convenience       *)
(* method sends exactly one request, a convenience method to the path of   *)
(* its own entity's id.                                                    *)
C10_OneRequest ==
    last.op \in ResourceOps
        => /\ Len(last.sent) = 1
           /\ last.op \in ConvenienceOps
                 => \E seg \in {"members", "online", "topics", "messages"},
                       coll \in {"groups", "topics"} :
                        last.sent[1].url = Url(<<Str(coll), last.self.id, Str(seg)>>)

====
